---- MODULE Spec2Model ----
(***************************************************************************)
(* Model of the signature dump callback (callbacks/sigdump.rs) and of the  *)
(* transaction types it reads (blockchain/proto/tx.rs).                    *)
(*                                                                         *)
(* Bytes are naturals 0..255 and byte strings are sequences of bytes.      *)
(* A u32 is the record [hi, lo] of its two 16-bit halves, so that          *)
(* 0xFFFFFFFF is representable; a u64 value is a natural.                  *)
(* SHA-256 is an uninterpreted injective function: the digest of m is the  *)
(* record [sha256 |-> m].                                                  *)
(***************************************************************************)
EXTENDS Integers, Sequences, FiniteSets, TLC

(***************************************************************************)
(* Bounds of the model.                                                    *)
(***************************************************************************)
\* number of on_block calls of one run
MaxBlocks == 2
\* heights handed to on_start and on_complete range over 0..MaxHeight
MaxHeight == 1
\* capacity in bytes of the BufWriter of the model.  The program asks for
\* 4000000 bytes (sigdump.rs:101); the model scales the capacity down to
\* two records so that the buffer fills, and is written through to the
\* file, within MaxBlocks blocks.
BufCap == 700

(***************************************************************************)
(* Byte strings and integers.                                              *)
(***************************************************************************)
Filled(n, b) == [k \in 1..n |-> b]

Reverse(a) == [k \in 1..Len(a) |-> a[Len(a) + 1 - k]]

U32(hi, lo) == [hi |-> hi, lo |-> lo]

\* u32::to_le_bytes
LE32(x) == <<x.lo % 256, x.lo \div 256, x.hi % 256, x.hi \div 256>>

\* u64::to_le_bytes, of a value below 2^31
LE64(n) ==
    <<n % 256, (n \div 256) % 256, (n \div 65536) % 256, (n \div 16777216) % 256,
      0, 0, 0, 0>>

\* `x as u8` of a usize
AsU8(n) == n % 256

\* `x as usize` of a u32, as far as indexing a vector of at most 65535
\* elements is concerned: the index, or 65536 when it is beyond all of them
AsUsize(x) == IF x.hi = 0 THEN x.lo ELSE 65536

\* utils::arr_to_hex: two nibbles per byte
ArrToHex(a) ==
    [k \in 1..(2 * Len(a)) |->
        IF k % 2 = 1 THEN a[(k + 1) \div 2] \div 16 ELSE a[k \div 2] % 16]

\* utils::arr_to_hex_swapped: the hex of the reversed byte string
ArrToHexSwapped(a) == ArrToHex(Reverse(a))

\* utils::sha256
Sha256(m) == [sha256 |-> m]

(***************************************************************************)
(* VarUint (blockchain/proto/varuint.rs): the value and its encoding.      *)
(***************************************************************************)
Varint(n) ==
    IF n < 253 THEN <<n>>
    ELSE IF n < 65536 THEN <<253, n % 256, n \div 256>>
    ELSE <<254, n % 256, (n \div 256) % 256, (n \div 65536) % 256, n \div 16777216>>

\* VarUint::from
VarUintFrom(n) == [value |-> n, buf |-> Varint(n)]

\* VarUint::to_bytes
VarUintToBytes(v) == v.buf

(***************************************************************************)
(* Scripts (blockchain/proto/script.rs) and DER signatures (ecdsa crate).  *)
(***************************************************************************)
\* a script that pushes `sig` and then `pubkey` with two small-push opcodes
PushPush(sig, pubkey) == <<Len(sig)>> \o sig \o <<Len(pubkey)>> \o pubkey

\* script::eval_from_bytes, as far as ScriptPattern::ScriptSig is concerned:
\* two small pushes, the first of 8..73 bytes starting with 0x30, the second
\* of 33 or 65 bytes starting with 0x02, 0x03 or 0x04
EvalFromBytes(script) ==
    LET n1 == script[1]
        n2 == script[n1 + 2]
    IN  IF /\ Len(script) >= 1
           /\ n1 \in 8..73
           /\ Len(script) >= n1 + 2
           /\ script[2] = 48
           /\ n2 \in {33, 65}
           /\ Len(script) = n1 + 2 + n2
           /\ script[n1 + 3] \in {2, 3, 4}
        THEN [kind |-> "ScriptSig",
              sig |-> SubSeq(script, 2, n1 + 1),
              pubkey |-> SubSeq(script, n1 + 3, n1 + 2 + n2)]
        ELSE [kind |-> "Other"]

RECURSIVE BEValue(_)
\* the value of a big-endian integer
BEValue(b) == IF b = <<>> THEN 0 ELSE 256 * BEValue(SubSeq(b, 1, Len(b) - 1)) + b[Len(b)]

\* a DER INTEGER body that encodes a non-zero scalar: positive, minimal
DerScalarOk(b) ==
    /\ Len(b) >= 1
    /\ b[1] < 128
    /\ (b[1] = 0 => Len(b) >= 2 /\ b[2] >= 128)
    /\ \E k \in 1..Len(b) : b[k] # 0

\* Signature::<NistP256>::from_der, for scalars of at most three bytes:
\* SEQUENCE { INTEGER r, INTEGER s } with definite short lengths
FromDer(b) ==
    LET rl == b[4]
        sl == b[6 + rl]
        rb == SubSeq(b, 5, 4 + rl)
        sb == SubSeq(b, 7 + rl, 6 + rl + sl)
    IN  IF /\ Len(b) >= 8
           /\ b[1] = 48
           /\ b[2] = Len(b) - 2
           /\ b[3] = 2
           /\ rl >= 1
           /\ Len(b) >= 6 + rl
           /\ b[5 + rl] = 2
           /\ sl >= 1
           /\ Len(b) = 6 + rl + sl
           /\ DerScalarOk(rb)
           /\ DerScalarOk(sb)
        THEN [ok |-> TRUE, r |-> BEValue(rb), s |-> BEValue(sb)]
        ELSE [ok |-> FALSE]

\* `{:x}` of a NonZeroScalar: the 64 hex digits of its 32 big-endian bytes
ScalarHex(n) ==
    ArrToHex(Filled(29, 0) \o <<n \div 65536, (n \div 256) % 256, n % 256>>)

RECURSIVE Digits(_)
\* the number of characters of `{}` of an unsigned integer
Digits(n) == IF n < 10 THEN 1 ELSE 1 + Digits(n \div 10)

(***************************************************************************)
(* Transactions (blockchain/proto/tx.rs).                                  *)
(***************************************************************************)
TxOutpoint(txid, index) == [txid |-> txid, index |-> index]

\* struct TxInput: the script length is stored as it was read
TxInput(outpoint, script_len, script_sig, seq_no) ==
    [outpoint |-> outpoint,
     script_len |-> script_len,
     script_sig |-> script_sig,
     seq_no |-> seq_no]

\* EvaluatedTxIn::eval_script; version_id selects the address prefix of an
\* output script and has no part in the pattern of an input script
EvaluatedTxIn(input, version_id) ==
    [script |-> [pattern |-> EvalFromBytes(input.script_sig)], input |-> input]

\* struct TxOutput
TxOutput(value, script_len, script_pubkey) ==
    [value |-> value,
     script_len |-> script_len,
     script_pubkey |-> script_pubkey]

\* EvaluatedTxOut::eval_script, as far as the output it wraps is concerned
EvaluatedTxOut(out, version_id) == [out |-> out]

\* EvaluatedTx::new: the two counts are stored as they are given
EvaluatedTx(version, in_count, inputs, out_count, outputs, locktime, version_id) ==
    [version |-> version,
     in_count |-> in_count,
     inputs |-> [k \in 1..Len(inputs) |-> EvaluatedTxIn(inputs[k], version_id)],
     out_count |-> out_count,
     outputs |-> [k \in 1..Len(outputs) |-> EvaluatedTxOut(outputs[k], version_id)],
     locktime |-> locktime]

\* a coinbase test that looks at the first input of any transaction with inputs
is_coinbaseFirstInput(tx) ==
    IF tx.in_count.value >= 1
    THEN IF tx.inputs = <<>> THEN [res |-> "panic"]
         ELSE [res |-> "ok",
               value |-> /\ tx.inputs[1].input.outpoint.txid = Filled(32, 0)
                         /\ tx.inputs[1].input.outpoint.index = U32(65535, 65535)]
    ELSE [res |-> "ok", value |-> FALSE]

\* EvaluatedTx::is_coinbase: the count read is the stored in_count;
\* inputs.first().unwrap() panics when there is no input
is_coinbase(tx) ==
    IF tx.in_count.value = 1
    THEN IF tx.inputs = <<>> THEN [res |-> "panic"]
         ELSE [res |-> "ok",
               value |-> /\ tx.inputs[1].input.outpoint.txid = Filled(32, 0)
                         /\ tx.inputs[1].input.outpoint.index = U32(65535, 65535)]
    ELSE [res |-> "ok", value |-> FALSE]

\* EvaluatedTxIn::as_csv: the fields of one line of the signature file
as_csv(r, s, pubkey, txid_str, message_hash_str, block_time) ==
    [r |-> ScalarHex(r),
     s |-> ScalarHex(s),
     pubkey |-> ArrToHex(pubkey),
     txid |-> txid_str,
     message_hash |-> message_hash_str,
     block_time |-> block_time]

\* the length in bytes of the line: five separators, the newline, and a
\* digest of 64 hex digits
CsvLen(line) ==
    Len(line.r) + Len(line.s) + Len(line.pubkey) + Len(line.txid) + 64
        + Digits(line.block_time) + 6

\* ToRaw for TxOutpoint
TxOutpointToBytes(outpoint) == outpoint.txid \o LE32(outpoint.index)

\* an input serialized with its sequence number before its script
TxInputToBytesSeqFirst(input) ==
    TxOutpointToBytes(input.outpoint) \o LE32(input.seq_no)
        \o VarUintToBytes(input.script_len) \o input.script_sig

\* ToRaw for TxInput
TxInputToBytes(input) ==
    TxOutpointToBytes(input.outpoint) \o VarUintToBytes(input.script_len)
        \o input.script_sig \o LE32(input.seq_no)

\* ToRaw for TxOutput
TxOutputToBytes(out) ==
    LE64(out.value) \o VarUintToBytes(out.script_len) \o out.script_pubkey

RECURSIVE Flatten(_)
\* Vec::extend_from_slice of each element in turn
Flatten(seqs) == IF seqs = <<>> THEN <<>> ELSE Head(seqs) \o Flatten(Tail(seqs))

\* ToRaw for EvaluatedTx
EvaluatedTxToBytes(tx) ==
    LE32(tx.version) \o VarUintToBytes(tx.in_count)
        \o Flatten([k \in 1..Len(tx.inputs) |-> TxInputToBytes(tx.inputs[k].input)])
        \o VarUintToBytes(tx.out_count)
        \o Flatten([k \in 1..Len(tx.outputs) |-> TxOutputToBytes(tx.outputs[k].out)])
        \o LE32(tx.locktime)

(***************************************************************************)
(* The transaction store behind BitcoinDB, and the inputs of the model.    *)
(***************************************************************************)
P2PKH == <<118, 169, 20>> \o Filled(20, 17) \o <<136, 172>>

TxidA == <<1>> \o Filled(31, 170)
TxidB == <<2>> \o Filled(31, 187)

\* Txid::from_hex: 64 hex digits in display order to the 32 bytes in
\* internal order
TxidFromHex(h) ==
    IF Len(h) = 64
    THEN [ok |-> TRUE,
          txid |-> Reverse([k \in 1..32 |-> 16 * h[2 * k - 1] + h[2 * k]])]
    ELSE [ok |-> FALSE]

\* BitcoinDB::get_transaction: the store knows one transaction, TxidA, with
\* outputs of 25, 253 and 256 bytes of script
DbGetTransaction(txid) ==
    IF txid = TxidA
    THEN [ok |-> TRUE, output |-> <<P2PKH, Filled(253, 172), Filled(256, 106)>>]
    ELSE [ok |-> FALSE]

PubKey == <<2>> \o Filled(32, 7)

\* the version_id of the coin: Bitcoin
VersionId == 0

\* an input, an output and a transaction as the parser reads them from a
\* block: a length and that many bytes, a count and that many elements
ReadInput(outpoint, script_sig, seq_no) ==
    TxInput(outpoint, VarUintFrom(Len(script_sig)), script_sig, seq_no)

ReadOutput(value, script_pubkey) ==
    TxOutput(value, VarUintFrom(Len(script_pubkey)), script_pubkey)

ReadTx(version, inputs, outputs, locktime) ==
    EvaluatedTx(version, VarUintFrom(Len(inputs)), inputs,
                VarUintFrom(Len(outputs)), outputs, locktime, VersionId)

\* a DER signature of two one-byte scalars, followed by the hash type
SigBytes(r, s, hash_type) == <<48, 6, 2, 1, r, 2, 1, s, hash_type>>

\* the same with a SEQUENCE length that is off by one: DER decoding fails
BadSigBytes == <<48, 7, 2, 1, 5, 2, 1, 6, 1>>

Sequence == U32(65535, 65535)

\* the kinds of inputs of the model: the outpoint spent and the script
InputKinds == 1..7

InputOfKind(k) ==
    CASE k = 1 -> ReadInput(TxOutpoint(TxidA, U32(0, 0)), PushPush(SigBytes(11, 21, 1), PubKey), Sequence)
      [] k = 2 -> ReadInput(TxOutpoint(TxidA, U32(0, 1)), PushPush(SigBytes(12, 22, 1), PubKey), Sequence)
      [] k = 3 -> ReadInput(TxOutpoint(TxidA, U32(0, 2)), PushPush(SigBytes(13, 23, 1), PubKey), U32(0, 7))
      [] k = 4 -> ReadInput(TxOutpoint(TxidA, U32(0, 3)), PushPush(SigBytes(14, 24, 1), PubKey), Sequence)
      [] k = 5 -> ReadInput(TxOutpoint(TxidB, U32(0, 0)), PushPush(SigBytes(15, 25, 3), PubKey), Sequence)
      [] k = 6 -> ReadInput(TxOutpoint(TxidA, U32(0, 0)), PushPush(BadSigBytes, PubKey), Sequence)
      [] k = 7 -> ReadInput(TxOutpoint(TxidA, U32(0, 1)), <<1, 81>>, Sequence)

Hashed(code, value) == [hash |-> <<code>> \o Filled(31, 200), value |-> value]

Tx1(a) ==
    Hashed(a, ReadTx(U32(0, 1), <<InputOfKind(a)>>, <<ReadOutput(5000, P2PKH)>>, U32(0, 0)))

Tx2(a, b) ==
    Hashed(10 * a + b,
           ReadTx(U32(0, 1), <<InputOfKind(a), InputOfKind(b)>>,
                       <<ReadOutput(5000, P2PKH), ReadOutput(70000, <<106>>)>>, U32(7, 41248)))

\* a coinbase transaction; its input script is any bytes the miner chose
Coinbase(code, script) ==
    Hashed(code,
           ReadTx(U32(0, 1),
                       <<ReadInput(TxOutpoint(Filled(32, 0), U32(65535, 65535)), script, Sequence)>>,
                       <<ReadOutput(50000, P2PKH)>>, U32(0, 0)))

\* the pairs of input kinds of the two-input transactions
Pairs ==
    {<<1, 2>>, <<2, 3>>, <<3, 1>>, <<1, 5>>, <<6, 1>>, <<2, 7>>, <<4, 1>>, <<1, 4>>, <<7, 6>>}

Txs == {Tx1(a) : a \in {1, 3}} \cup {Tx2(p[1], p[2]) : p \in Pairs}

MkBlock(txs) ==
    [header |-> [value |-> [timestamp |-> 1231006505]],
     tx_count |-> VarUintFrom(Len(txs)),
     txs |-> txs]

PlainCoinbase == Coinbase(100, <<4, 255, 255, 0, 29>>)

\* a coinbase whose script is the push of a signature and of a public key
SignedCoinbase == Coinbase(101, PushPush(SigBytes(31, 32, 1), PubKey))

\* the blocks the parser may deliver: the coinbase first
Blocks ==
    {MkBlock(<<PlainCoinbase>>), MkBlock(<<SignedCoinbase>>),
     MkBlock(<<SignedCoinbase, Tx1(1)>>)}
        \cup {MkBlock(<<PlainCoinbase, t>>) : t \in Txs}
        \cup {MkBlock(<<PlainCoinbase, Tx1(p[1]), Tx1(p[2])>>) : p \in {<<1, 5>>, <<7, 1>>}}

(***************************************************************************)
(* SigDump (callbacks/sigdump.rs).                                         *)
(***************************************************************************)
VARIABLES
    pc,            \* where the run is: "new", "started", "completed",
                   \* "failed", "panicked", "dropped"
    start_height, end_height, tx_count, in_count, out_count, blocks_count,
    sig_writer,    \* the BufWriter: [buf |-> the bytes not yet written]
    files,         \* the dump folder: file name |-> the bytes of the file
    sig_file,      \* the name under which the file of the writer is linked
    result,        \* the last call and what it returned
    delivered,     \* history: the blocks handed to on_block
    heights,       \* history: the heights handed to on_start, on_complete
    log,           \* history: oracle queries and writes, in order
    pure           \* a call of a function of tx.rs: its argument, its result

vars ==
    <<pc, start_height, end_height, tx_count, in_count, out_count, blocks_count,
      sig_writer, files, sig_file, result, delivered, heights, log, pure>>

RECURSIVE ConcatAll(_)
ConcatAll(seqs) == IF seqs = <<>> THEN <<>> ELSE Head(seqs) \o ConcatAll(Tail(seqs))

\* The bytes of the buffer and of the file are kept as a sequence of pieces:
\* a piece is the bytes from..to of a line, a whole line is its bytes
\* 1..CsvLen.
Whole(line) == [line |-> line, from |-> 1, to |-> CsvLen(line)]

PieceLen(p) == p.to - p.from + 1

RECURSIVE BytesOf(_)
\* the number of bytes of a sequence of pieces
BytesOf(pieces) ==
    IF pieces = <<>> THEN 0 ELSE PieceLen(Head(pieces)) + BytesOf(Tail(pieces))

Min(a, b) == IF a < b THEN a ELSE b

RECURSIVE TakeBytes(_, _)
\* the first n bytes
TakeBytes(pieces, n) ==
    IF n <= 0 \/ pieces = <<>> THEN <<>>
    ELSE IF PieceLen(Head(pieces)) <= n
         THEN <<Head(pieces)>> \o TakeBytes(Tail(pieces), n - PieceLen(Head(pieces)))
         ELSE <<[Head(pieces) EXCEPT !.to = Head(pieces).from + n - 1]>>

RECURSIVE DropBytes(_, _)
\* what follows the first n bytes
DropBytes(pieces, n) ==
    IF n <= 0 \/ pieces = <<>> THEN pieces
    ELSE IF PieceLen(Head(pieces)) <= n
         THEN DropBytes(Tail(pieces), n - PieceLen(Head(pieces)))
         ELSE <<[Head(pieces) EXCEPT !.from = Head(pieces).from + n]>> \o Tail(pieces)

\* bytes written after bytes: the piece that continues the last one of the
\* file is one piece with it
Written(file, pieces) ==
    IF /\ file # <<>> /\ pieces # <<>>
       /\ file[Len(file)].line = pieces[1].line
       /\ file[Len(file)].to + 1 = pieces[1].from
    THEN SubSeq(file, 1, Len(file) - 1)
            \o <<[file[Len(file)] EXCEPT !.to = pieces[1].to]>> \o Tail(pieces)
    ELSE file \o pieces

\* the bytes a flush that fails writes before the error: those of `partial`
\* pieces and `torn` bytes more, short of the whole buffer
AcceptedBytes(buf, partial, torn) ==
    Min(BytesOf(SubSeq(buf, 1, Min(partial, Len(buf)))) + torn, BytesOf(buf) - 1)

\* SigDump::get_previous_outputs
get_previous_outputs(previous_txid) ==
    LET txid_str == ArrToHexSwapped(previous_txid)
        txid == TxidFromHex(txid_str)
        tx == DbGetTransaction(txid.txid)
    IN  IF txid.ok /\ tx.ok
        THEN [some |-> TRUE, outputs |-> tx.output]
        ELSE [some |-> FALSE]

\* on_block, lines 167-177: indexing the previous outputs panics when the
\* index is not below their number
SubscriptPanics(raw_input) ==
    LET previous_outputs == get_previous_outputs(raw_input.input.outpoint.txid)
    IN  /\ previous_outputs.some
        /\ AsUsize(raw_input.input.outpoint.index) >= Len(previous_outputs.outputs)

\* on_block, lines 167-177: the subscript of the input being signed
Subscript(raw_input) ==
    LET previous_outputs == get_previous_outputs(raw_input.input.outpoint.txid)
    IN  IF previous_outputs.some
        THEN previous_outputs.outputs[AsUsize(raw_input.input.outpoint.index) + 1]
        ELSE <<>>

\* a modified input that keeps the script of the inputs that are not signed
RInputKeepsScript(raw_input, signed) ==
    [outpoint |-> TxOutpoint(raw_input.input.outpoint.txid, raw_input.input.outpoint.index),
     script_len |-> IF signed THEN VarUintFrom(AsU8(Len(Subscript(raw_input))))
                              ELSE raw_input.input.script_len,
     script_sig |-> IF signed THEN Subscript(raw_input) ELSE raw_input.input.script_sig,
     seq_no |-> raw_input.input.seq_no]

\* on_block, lines 155-182: the modified input
RInput(raw_input, signed) ==
    [outpoint |-> TxOutpoint(raw_input.input.outpoint.txid, raw_input.input.outpoint.index),
     script_len |-> IF signed THEN VarUintFrom(AsU8(Len(Subscript(raw_input))))
                              ELSE VarUintFrom(0),
     script_sig |-> IF signed THEN Subscript(raw_input) ELSE <<>>,
     seq_no |-> raw_input.input.seq_no]

\* on_block, lines 185-195
InputBytes(r_input) ==
    r_input.outpoint.txid \o LE32(r_input.outpoint.index)
        \o VarUintToBytes(r_input.script_len) \o r_input.script_sig \o LE32(r_input.seq_no)

\* on_block, lines 206-216
OutputBytes(output) ==
    LE64(output.out.value) \o VarUintToBytes(output.out.script_len) \o output.out.script_pubkey

\* on_block, lines 130-134 and 150-222: the message of input `input_index`
TbsMessage(tx, input_index, hash_type) ==
    LE32(tx.version) \o VarUintToBytes(tx.in_count)
        \o ConcatAll([j \in 1..Len(tx.inputs) |-> InputBytes(RInput(tx.inputs[j], j = input_index))])
        \o VarUintToBytes(tx.out_count)
        \o ConcatAll([j \in 1..Len(tx.outputs) |-> OutputBytes(tx.outputs[j])])
        \o LE32(tx.locktime)
        \o LE32(U32(0, hash_type))

\* on_block, lines 225-234: the line written for a decoded signature
LineOf(block, htx, input_index) ==
    LET input == htx.value.inputs[input_index]
        sig == input.script.pattern.sig
        only_sig == SubSeq(sig, 1, Len(sig) - 1)
        hash_type == sig[Len(sig)]
        esig == FromDer(only_sig)
    IN  as_csv(esig.r, esig.s, input.script.pattern.pubkey,
               ArrToHexSwapped(htx.hash),
               Sha256(Sha256(TbsMessage(htx.value, input_index, hash_type))),
               block.header.value.timestamp)

\* whether on_block decodes a signature from the input (lines 139-145)
Decodes(input) ==
    /\ input.script.pattern.kind = "ScriptSig"
    /\ FromDer(SubSeq(input.script.pattern.sig, 1, Len(input.script.pattern.sig) - 1)).ok

\* BufWriter::flush_buf that fails: the bytes written before the error are
\* in the file and have left the buffer, the others stay in the buffer
FlushFails(st, partial, torn) ==
    LET n == AcceptedBytes(st.buf, partial, torn)
    IN  [st EXCEPT !.file = Written(@, TakeBytes(st.buf, n)),
                   !.buf = DropBytes(st.buf, n),
                   !.flushes = @ + 1,
                   !.status = "err"]

\* BufWriter::write_all of one line; the flush numbered ctx.fail_at of the
\* call fails
WriteAll(st, line, ctx) ==
    IF BytesOf(st.buf) + CsvLen(line) > BufCap
    THEN IF st.flushes + 1 = ctx.fail_at
         THEN FlushFails(st, ctx.partial, ctx.torn)
         ELSE IF CsvLen(line) >= BufCap
              THEN [st EXCEPT !.file = Written(@, st.buf \o <<Whole(line)>>),
                              !.buf = <<>>, !.flushes = @ + 1]
              ELSE [st EXCEPT !.file = Written(@, st.buf), !.buf = <<Whole(line)>>,
                              !.flushes = @ + 1]
    ELSE [st EXCEPT !.buf = Append(@, Whole(line))]

\* a write whose error is dropped instead of returned
EmitIgnoringError(st, ctx, at, line) ==
    LET Logged(w) ==
            [w EXCEPT !.log = Append(@, [ev |-> "write", at |-> at, line |-> line,
                                         ok |-> w.status = "ok"]),
                      !.status = "ok"]
    IN  Logged(WriteAll(st, line, ctx))

\* on_block, lines 230-234: the write of the line, with its place in the log
Emit(st, ctx, at, line) ==
    LET Logged(w) ==
            [w EXCEPT !.log = Append(@, [ev |-> "write", at |-> at, line |-> line,
                                         ok |-> w.status = "ok"])]
    IN  Logged(WriteAll(st, line, ctx))

\* the previous outputs fetched before the script pattern is looked at
ProcessInputQueriesFirst(st, ctx, t, i) ==
    LET htx == ctx.block.txs[t]
        input == htx.value.inputs[i]
        at == [blk |-> ctx.blk, tx |-> t, inp |-> i]
        query == [ev |-> "query", at |-> at, txid |-> input.input.outpoint.txid]
    IN  IF ~Decodes(input) THEN [st EXCEPT !.log = Append(@, query)]
        ELSE IF SubscriptPanics(input)
             THEN [st EXCEPT !.log = Append(@, query), !.status = "panic"]
             ELSE Emit([st EXCEPT !.log = Append(@, query)], ctx, at,
                       LineOf(ctx.block, htx, i))

\* on_block, lines 139-241: one iteration of the loop over the inputs
ProcessInput(st, ctx, t, i) ==
    LET htx == ctx.block.txs[t]
        input == htx.value.inputs[i]
        at == [blk |-> ctx.blk, tx |-> t, inp |-> i]
        query == [ev |-> "query", at |-> at, txid |-> input.input.outpoint.txid]
    IN  IF ~Decodes(input) THEN st
        ELSE IF SubscriptPanics(input)
             THEN [st EXCEPT !.log = Append(@, query), !.status = "panic"]
             ELSE Emit([st EXCEPT !.log = Append(@, query)], ctx, at,
                       LineOf(ctx.block, htx, i))

RECURSIVE ProcessInputsBackwards(_, _, _, _)
\* the loop over the inputs run from the last input to the first
ProcessInputsBackwards(st, ctx, t, i) ==
    IF st.status # "ok" \/ i > Len(ctx.block.txs[t].value.inputs) THEN st
    ELSE ProcessInputsBackwards(
            ProcessInput(st, ctx, t, Len(ctx.block.txs[t].value.inputs) + 1 - i),
            ctx, t, i + 1)

RECURSIVE ProcessInputs(_, _, _, _)
\* on_block, lines 137-242: the loop over the inputs, left at the first error
ProcessInputs(st, ctx, t, i) ==
    IF st.status # "ok" \/ i > Len(ctx.block.txs[t].value.inputs) THEN st
    ELSE ProcessInputs(ProcessInput(st, ctx, t, i), ctx, t, i + 1)

\* the counters advanced by the lines written instead of the announced counts
ProcessTxCountsLines(st, ctx, t) ==
    LET tx == ctx.block.txs[t].value
        done == ProcessInputs(st, ctx, t, 1)
    IN  IF done.status # "ok" THEN done
        ELSE [done EXCEPT !.in_count = @ + (Len(done.log) - Len(st.log)) \div 2,
                          !.out_count = @ + tx.out_count.value]

\* on_block, lines 127-245: one iteration of the loop over the transactions
ProcessTx(st, ctx, t) ==
    LET tx == ctx.block.txs[t].value
        done == ProcessInputs(st, ctx, t, 1)
    IN  IF done.status # "ok" THEN done
        ELSE [done EXCEPT !.in_count = @ + tx.in_count.value,
                          !.out_count = @ + tx.out_count.value]

RECURSIVE ProcessTxs(_, _, _)
\* on_block, lines 127-245: the loop over the transactions
ProcessTxs(st, ctx, t) ==
    IF st.status # "ok" \/ t > Len(ctx.block.txs) THEN st
    ELSE ProcessTxs(ProcessTx(st, ctx, t), ctx, t + 1)

\* SigDump::new
Init ==
    /\ pc = "new"
    /\ start_height = 0
    /\ end_height = 0
    /\ tx_count = 0
    /\ in_count = 0
    /\ out_count = 0
    /\ blocks_count = 0
    /\ sig_writer = [buf |-> <<>>]
    /\ files = [n \in {<<"signatures.csv.tmp">>} |-> <<>>]
    /\ sig_file = <<"signatures.csv.tmp">>
    /\ result = [op |-> "new", res |-> "ok"]
    /\ delivered = <<>>
    /\ heights = [start |-> 0, end |-> 0]
    /\ log = <<>>
    /\ pure = [op |-> "none"]

\* SigDump::on_start
on_start(block_height) ==
    /\ pc = "new"
    /\ start_height' = block_height
    /\ pc' = "started"
    /\ result' = [op |-> "on_start", res |-> "ok"]
    /\ heights' = [heights EXCEPT !.start = block_height]
    /\ UNCHANGED <<end_height, tx_count, in_count, out_count, blocks_count,
                   sig_writer, files, sig_file, delivered, log, pure>>

\* the flush of a call that fails; the whole lines a failing flush writes,
\* and the bytes of the next line it writes when it stops inside a line
MaxFail == 1
MaxPartial == 1
TornBytes == 40

\* SigDump::on_block.  The file takes every flush of the call (fail_at = 0)
\* or fails the flush numbered fail_at, one of those the call comes to.
on_block(block) ==
    /\ pc = "started"
    /\ Len(delivered) < MaxBlocks
    /\ LET ctx == [blk |-> Len(delivered) + 1, block |-> block,
                   fail_at |-> 0, partial |-> 0, torn |-> 0]
           st0 == [buf |-> sig_writer.buf, file |-> files[sig_file], log |-> log,
                   status |-> "ok", flushes |-> 0,
                   in_count |-> in_count, out_count |-> out_count]
       IN  \E all \in {ProcessTxs(st0, ctx, 1)} :
           \E fail_at \in 0..Min(MaxFail, all.flushes) :
           \E partial \in 0..(IF fail_at = 0 THEN 0 ELSE MaxPartial) :
           \E torn \in (IF fail_at = 0 THEN {0} ELSE {0, TornBytes}) :
           \E st \in {IF fail_at = 0 THEN all
                       ELSE ProcessTxs(st0, [ctx EXCEPT !.fail_at = fail_at,
                                                        !.partial = partial,
                                                        !.torn = torn], 1)} :
           /\ blocks_count' = blocks_count + 1
           /\ sig_writer' = [buf |-> st.buf]
           /\ files' = [files EXCEPT ![sig_file] = st.file]
           /\ log' = st.log
           /\ in_count' = st.in_count
           /\ out_count' = st.out_count
           /\ tx_count' = IF st.status = "ok" THEN tx_count + block.tx_count.value
                          ELSE tx_count
           /\ result' = [op |-> "on_block", res |-> st.status]
           /\ pc' = CASE st.status = "ok" -> "started"
                      [] st.status = "err" -> "failed"
                      [] st.status = "panic" -> "panicked"
    /\ delivered' = Append(delivered, block)
    /\ UNCHANGED <<start_height, end_height, sig_file, heights, pure>>

\* the name with the two heights in the wrong order
FinalNameSwapped(start, end) == <<"signatures-", end, "-", start, ".csv">>

\* the name on_complete gives the file: signatures-<start>-<end>.csv
FinalName(start, end) == <<"signatures-", start, "-", end, ".csv">>

\* SigDump::on_complete; fs::rename succeeds or fails
on_complete(block_height, rename_ok) ==
    /\ pc = "started"
    /\ end_height' = block_height
    /\ heights' = [heights EXCEPT !.end = block_height]
    /\ IF rename_ok
       THEN LET from == <<"signatures.csv.tmp">>
                to == FinalName(start_height, block_height)
            IN  /\ files' = [n \in (DOMAIN files \ {from}) \cup {to} |-> files[from]]
                /\ sig_file' = IF sig_file = from THEN to ELSE sig_file
                /\ result' = [op |-> "on_complete", res |-> "ok"]
                /\ pc' = "completed"
       ELSE /\ result' = [op |-> "on_complete", res |-> "err"]
            /\ pc' = "failed"
            /\ UNCHANGED <<files, sig_file>>
    /\ UNCHANGED <<start_height, tx_count, in_count, out_count, blocks_count,
                   sig_writer, delivered, log, pure>>

\* the callback is dropped, at the end of the run or before: BufWriter::drop
\* flushes the buffer and ignores the error of a flush that fails
drop(flush_ok, partial, torn) ==
    /\ pc # "dropped"
    /\ flush_ok => partial = 0 /\ torn = 0
    /\ ~flush_ok => /\ partial < Len(sig_writer.buf)
                    /\ torn < PieceLen(sig_writer.buf[partial + 1])
    /\ LET n == IF flush_ok THEN BytesOf(sig_writer.buf)
                ELSE AcceptedBytes(sig_writer.buf, partial, torn)
       IN  files' = [files EXCEPT ![sig_file] = Written(@, TakeBytes(sig_writer.buf, n))]
    /\ sig_writer' = [buf |-> <<>>]
    /\ pc' = "dropped"
    /\ UNCHANGED <<start_height, end_height, tx_count, in_count, out_count,
                   blocks_count, sig_file, result, delivered, heights, log, pure>>

Next ==
    \/ \E h \in 0..MaxHeight : on_start(h)
    \/ \E b \in Blocks : on_block(b)
    \/ \E h \in 0..MaxHeight, ok \in BOOLEAN : on_complete(h, ok)
    \/ \E ok \in BOOLEAN, p \in 0..MaxPartial, t \in {0, TornBytes} : drop(ok, p, t)

Spec == Init /\ [][Next]_vars

(***************************************************************************)
(* The functions of tx.rs, applied to transactions the parser may build.   *)
(***************************************************************************)
\* the transactions have at most MaxInputs inputs and MaxOutputs outputs;
\* one input keeps a script length that was three bytes on the wire
MaxInputs == 2
MaxOutputs == 2

\* a number below 253 encoded in three bytes, as a block may hold it
LongVarUint(n) == [value |-> n, buf |-> <<253, n, 0>>]

SeqsUpTo(S, n) == UNION {[1..k -> S] : k \in 0..n}

PureInputs ==
    {ReadInput(TxOutpoint(Filled(32, 0), U32(65535, 65535)), <<4, 255, 255, 0, 29>>, Sequence),
     ReadInput(TxOutpoint(Filled(32, 0), U32(0, 0)), <<1, 81>>, Sequence),
     ReadInput(TxOutpoint(Filled(32, 0), U32(0, 65535)), <<>>, Sequence),
     ReadInput(TxOutpoint(TxidA, U32(65535, 65535)), <<1, 81>>, U32(0, 0)),
     ReadInput(TxOutpoint(TxidB, U32(258, 772)), Filled(253, 9), U32(1286, 1800)),
     TxInput(TxOutpoint(TxidA, U32(0, 1)), LongVarUint(2), <<1, 81>>, Sequence),
     InputOfKind(1)}

PureOutputs == {ReadOutput(5000, P2PKH), ReadOutput(16909060, Filled(253, 106))}

\* a count as it was read: in one byte, or in the three bytes fd xx 00
CountsOf(n) == {VarUintFrom(n), LongVarUint(n)}

PureTxs ==
    UNION {{EvaluatedTx(U32(0, 2), ic, ins, VarUintFrom(Len(outs)), outs,
                        U32(7, 41248), VersionId) : ic \in CountsOf(Len(ins))} :
              ins \in SeqsUpTo(PureInputs, MaxInputs),
              outs \in SeqsUpTo(PureOutputs, MaxOutputs)}

InitPure ==
    /\ pc = "new"
    /\ start_height = 0
    /\ end_height = 0
    /\ tx_count = 0
    /\ in_count = 0
    /\ out_count = 0
    /\ blocks_count = 0
    /\ sig_writer = [buf |-> <<>>]
    /\ files = [n \in {<<"signatures.csv.tmp">>} |-> <<>>]
    /\ sig_file = <<"signatures.csv.tmp">>
    /\ result = [op |-> "new", res |-> "ok"]
    /\ delivered = <<>>
    /\ heights = [start |-> 0, end |-> 0]
    /\ log = <<>>
    /\ pure \in {[op |-> "arg", tx |-> tx] : tx \in PureTxs}

\* ToRaw::to_bytes of the transaction, of its inputs with their outpoints,
\* and of its outputs
to_bytes ==
    /\ pure.op = "arg"
    /\ pure' = [op |-> "to_bytes",
                tx |-> pure.tx,
                bytes |-> EvaluatedTxToBytes(pure.tx),
                outpoints |-> [k \in DOMAIN pure.tx.inputs |->
                                  TxOutpointToBytes(pure.tx.inputs[k].input.outpoint)],
                inputs |-> [k \in DOMAIN pure.tx.inputs |->
                               TxInputToBytes(pure.tx.inputs[k].input)],
                outputs |-> [k \in DOMAIN pure.tx.outputs |->
                                TxOutputToBytes(pure.tx.outputs[k].out)]]
    /\ UNCHANGED <<pc, start_height, end_height, tx_count, in_count, out_count,
                   blocks_count, sig_writer, files, sig_file, result, delivered,
                   heights, log>>

\* EvaluatedTx::is_coinbase of the transaction
is_coinbase_call ==
    /\ pure.op = "arg"
    /\ pure' = [op |-> "is_coinbase", tx |-> pure.tx, result |-> is_coinbase(pure.tx)]
    /\ UNCHANGED <<pc, start_height, end_height, tx_count, in_count, out_count,
                   blocks_count, sig_writer, files, sig_file, result, delivered,
                   heights, log>>

NextPure == to_bytes \/ is_coinbase_call

SpecPure == InitPure /\ [][NextPure]_vars

(***************************************************************************)
(* What the properties below read off a state.                             *)
(***************************************************************************)
\* the writes of the log, and the lines the writer accepted, in order
Writes == SelectSeq(log, LAMBDA e : e.ev = "write")
Accepted == SelectSeq(log, LAMBDA e : e.ev = "write" /\ e.ok)

\* everything handed to the sink so far: the file, then the buffer
Sink == Written(files[sig_file], sig_writer.buf)

\* the transaction and the input an event of the log is about
TxAt(at) == delivered[at.blk].txs[at.tx]
InputAt(at) == TxAt(at).value.inputs[at.inp]

\* the message whose double SHA-256 a line carries
MessageOf(line) == line.message_hash.sha256.sha256

\* the locking script the store has for an outpoint, if it has one
PriorOutputKnown(outpoint) ==
    /\ DbGetTransaction(outpoint.txid).ok
    /\ outpoint.index.hi = 0
    /\ outpoint.index.lo < Len(DbGetTransaction(outpoint.txid).output)

PriorOutput(outpoint) ==
    IF PriorOutputKnown(outpoint)
    THEN DbGetTransaction(outpoint.txid).output[outpoint.index.lo + 1]
    ELSE <<>>

\* the hash type of a signature push: its last byte
HashTypeOf(input) == input.script.pattern.sig[Len(input.script.pattern.sig)]

\* the message of section 4.6 for input i of tx
SighashMessage(tx, i) ==
    LE32(tx.version) \o Varint(Len(tx.inputs))
        \o ConcatAll([j \in 1..Len(tx.inputs) |->
              tx.inputs[j].input.outpoint.txid \o LE32(tx.inputs[j].input.outpoint.index)
                \o (IF j = i
                    THEN Varint(Len(PriorOutput(tx.inputs[j].input.outpoint)))
                            \o PriorOutput(tx.inputs[j].input.outpoint)
                    ELSE <<0>>)
                \o LE32(tx.inputs[j].input.seq_no)])
        \o Varint(Len(tx.outputs))
        \o ConcatAll([j \in 1..Len(tx.outputs) |->
              LE64(tx.outputs[j].out.value) \o Varint(Len(tx.outputs[j].out.script_pubkey))
                \o tx.outputs[j].out.script_pubkey])
        \o LE32(tx.locktime)
        \o <<HashTypeOf(tx.inputs[i]), 0, 0, 0>>

\* the number of bytes of a message before input slot i, and after slot i
\* up to the end of the message
BeforeSlot(tx, i) == 4 + Len(tx.in_count.buf) + 41 * (i - 1)
AfterSlot(tx, i) ==
    41 * (Len(tx.inputs) - i) + Len(tx.out_count.buf)
        + Len(ConcatAll([j \in 1..Len(tx.outputs) |-> OutputBytes(tx.outputs[j])])) + 8

Prefix(m, n) == SubSeq(m, 1, n)
Suffix(m, n) == SubSeq(m, Len(m) - n + 1, Len(m))

(***************************************************************************)
(* C1.  The message hashed for a decoded signature of input i is exactly   *)
(* version, varint(in_count), the inputs with the subscript in slot i and  *)
(* an empty script in the others, varint(out_count), the outputs, the      *)
(* locktime and [hash_type, 0, 0, 0]; and the messages of two signed       *)
(* inputs of one transaction with the same hash type differ only in their  *)
(* two slots.                                                              *)
(***************************************************************************)
C1_MessageIsSighashMessage ==
    /\ \A k \in DOMAIN Writes :
          MessageOf(Writes[k].line) = SighashMessage(TxAt(Writes[k].at).value, Writes[k].at.inp)
    /\ \A k \in DOMAIN Writes, l \in DOMAIN Writes :
          LET e == Writes[k]
              f == Writes[l]
              tx == TxAt(e.at).value
          IN  (/\ e.at.blk = f.at.blk
               /\ e.at.tx = f.at.tx
               /\ e.at.inp < f.at.inp
               /\ HashTypeOf(InputAt(e.at)) = HashTypeOf(InputAt(f.at)))
              => /\ Prefix(MessageOf(e.line), BeforeSlot(tx, e.at.inp))
                      = Prefix(MessageOf(f.line), BeforeSlot(tx, e.at.inp))
                 /\ Suffix(MessageOf(e.line), AfterSlot(tx, f.at.inp))
                      = Suffix(MessageOf(f.line), AfterSlot(tx, f.at.inp))

(***************************************************************************)
(* C2.  In the message of signed input i, the script length written in     *)
(* slot i is the varint of the number of bytes of the subscript, and the   *)
(* subscript follows it.                                                   *)
(***************************************************************************)
C2_ScriptLenIsVarintOfSubscriptLen ==
    \A k \in DOMAIN Writes :
        LET e == Writes[k]
            tx == TxAt(e.at).value
            sub == Subscript(InputAt(e.at))
            from == BeforeSlot(tx, e.at.inp) + 36
        IN  SubSeq(MessageOf(e.line), from + 1, from + Len(Varint(Len(sub)) \o sub))
                = Varint(Len(sub)) \o sub

(***************************************************************************)
(* C3.  A decoded signature whose prior output the oracle cannot supply    *)
(* (no such transaction, or no output at that index) is written with an    *)
(* empty subscript of length 0, and the block call goes on.                *)
(***************************************************************************)
C3_MissingPriorOutputIsNotFatal ==
    /\ result.res # "panic"
    /\ \A k \in DOMAIN log :
          (log[k].ev = "query" /\ ~PriorOutputKnown(InputAt(log[k].at).input.outpoint))
          => /\ k < Len(log)
             /\ log[k + 1].ev = "write"
             /\ log[k + 1].at = log[k].at
             /\ LET input == InputAt(log[k].at).input
                    from == BeforeSlot(TxAt(log[k].at).value, log[k].at.inp)
                IN  SubSeq(MessageOf(log[k + 1].line), from + 1, from + 41)
                        = input.outpoint.txid \o LE32(input.outpoint.index) \o <<0>>
                            \o LE32(input.seq_no)

(***************************************************************************)
(* C4.  No line handed to the sink carries the txid of a coinbase          *)
(* transaction.                                                            *)
(***************************************************************************)
C4_NoCoinbaseRecord ==
    \A k \in DOMAIN Sink, b \in DOMAIN delivered :
        \A t \in DOMAIN delivered[b].txs :
            is_coinbase(delivered[b].txs[t].value) = [res |-> "ok", value |-> TRUE]
            => Sink[k].line.txid # ArrToHexSwapped(delivered[b].txs[t].hash)

(***************************************************************************)
(* C5.  The lines handed to the sink are in the order of (block call,      *)
(* transaction within the block, input within the transaction): the sink   *)
(* holds the accepted lines in the order they were written (the last of    *)
(* them in part, when the flush of the drop failed), and a line of an      *)
(* earlier place is never written after one of a later place.              *)
(***************************************************************************)
Earlier(a, b) ==
    \/ a.blk < b.blk
    \/ a.blk = b.blk /\ a.tx < b.tx
    \/ a.blk = b.blk /\ a.tx = b.tx /\ a.inp < b.inp

C5_RecordsInBlockTxInputOrder ==
    /\ Len(Sink) <= Len(Accepted)
    /\ \A k \in DOMAIN Sink :
          /\ Sink[k].line = Accepted[k].line
          /\ Sink[k].from = 1
          /\ (k < Len(Sink) \/ pc # "dropped") => Sink[k] = Whole(Accepted[k].line)
    /\ pc # "dropped" => Len(Sink) = Len(Accepted)
    /\ \A k \in DOMAIN Accepted, l \in DOMAIN Accepted :
          k < l => Earlier(Accepted[k].at, Accepted[l].at)

\* lines of two blocks, of two transactions of one block and of two inputs
\* of one transaction are in the sink, part of them in the file
C5_Witness ==
    /\ Len(Sink) >= 4
    /\ files[sig_file] # <<>>
    /\ \E k \in DOMAIN Accepted, l \in DOMAIN Accepted :
          Accepted[k].at.blk = Accepted[l].at.blk /\ Accepted[k].at.tx < Accepted[l].at.tx
    /\ \E k \in DOMAIN Accepted, l \in DOMAIN Accepted :
          /\ Accepted[k].at.blk = Accepted[l].at.blk
          /\ Accepted[k].at.tx = Accepted[l].at.tx
          /\ Accepted[k].at.inp < Accepted[l].at.inp

(***************************************************************************)
(* C6.  A transaction all of whose inputs carry a decodable signature gets *)
(* one line per input, whatever the oracle returns (in a block call that   *)
(* no write error ended).                                                  *)
(***************************************************************************)
C6_OneRecordPerInput ==
    \A b \in DOMAIN delivered :
        (\A k \in DOMAIN Writes : Writes[k].at.blk = b => Writes[k].ok)
        => \A t \in DOMAIN delivered[b].txs :
              LET tx == delivered[b].txs[t].value
              IN  (\A i \in DOMAIN tx.inputs : Decodes(tx.inputs[i]))
                  => Cardinality({k \in DOMAIN Writes :
                                    Writes[k].at.blk = b /\ Writes[k].at.tx = t})
                        = Len(tx.inputs)

(***************************************************************************)
(* C7.  An input whose script is not the signature pattern, or whose       *)
(* signature does not DER-decode, leaves no trace (no query, no line, no   *)
(* error), and the lines of the other inputs of its transaction are the    *)
(* lines they get when the skipped input carries any other script.  Read   *)
(* in the state in which on_block returns.                                 *)
(***************************************************************************)
\* the scripts a skipped input might have carried instead
OtherScripts ==
    {<<>>, <<1, 81>>, <<0, 81, 81>>, PushPush(BadSigBytes, PubKey),
     PushPush(SigBytes(0, 9, 1), PubKey), PushPush(SigBytes(41, 42, 1), PubKey),
     PushPush(SigBytes(43, 44, 2), <<4>> \o Filled(64, 9))}

\* the transaction with the script of input j replaced
WithScript(htx, j, script) ==
    [htx EXCEPT !.value.inputs[j] =
        EvaluatedTxIn(ReadInput(@.input.outpoint, script, @.input.seq_no), VersionId)]

C7_SkippedInputLeavesOthersUnaffected ==
    (result.op = "on_block" /\ pc # "dropped") =>
    \A b \in DOMAIN delivered :
        \A t \in DOMAIN delivered[b].txs :
            \A j \in DOMAIN delivered[b].txs[t].value.inputs :
                ~Decodes(delivered[b].txs[t].value.inputs[j])
                => /\ \A k \in DOMAIN log : log[k].at # [blk |-> b, tx |-> t, inp |-> j]
                   /\ \A k \in DOMAIN Writes :
                         (Writes[k].at.blk = b /\ Writes[k].at.tx = t)
                         => \A script \in OtherScripts :
                               Writes[k].line =
                                 LineOf(delivered[b],
                                        WithScript(delivered[b].txs[t], j, script),
                                        Writes[k].at.inp)
                   /\ (result.op = "on_block" /\ result.res # "ok" /\ b = Len(delivered))
                      => log # <<>> /\ log[Len(log)].at.blk = b

\* a line was written for an input next to a skipped one, after and before it
C7_Witness ==
    /\ \E k \in DOMAIN Writes :
          /\ Len(TxAt(Writes[k].at).value.inputs) = 2
          /\ Writes[k].at.inp = 2
          /\ ~Decodes(TxAt(Writes[k].at).value.inputs[1])
    /\ \E k \in DOMAIN Writes :
          /\ Len(TxAt(Writes[k].at).value.inputs) = 2
          /\ Writes[k].at.inp = 1
          /\ ~Decodes(TxAt(Writes[k].at).value.inputs[2])

(***************************************************************************)
(* C8.  When on_complete has returned successfully, every line handed to   *)
(* the buffered writer has left the buffer and is in the published file.   *)
(***************************************************************************)
C8_FlushedOnComplete ==
    pc = "completed"
    => /\ sig_writer.buf = <<>>
       /\ files[sig_file] = [k \in DOMAIN Accepted |-> Whole(Accepted[k].line)]

(***************************************************************************)
(* C9.  Until completion the only file is signatures.csv.tmp and the lines *)
(* go to it; a successful on_complete(end_height) has renamed it to        *)
(* signatures-<start_height>-<end_height>.csv with the heights handed to   *)
(* on_start and on_complete; when the rename fails on_complete returns an  *)
(* error and the file keeps its name.                                      *)
(***************************************************************************)
C9_TempFileThenRenamed ==
    LET tmp == <<"signatures.csv.tmp">>
        final == <<"signatures-", heights.start, "-", heights.end, ".csv">>
    IN  /\ DOMAIN files = {sig_file}
        /\ pc \in {"new", "started", "panicked"} => sig_file = tmp
        /\ pc = "failed" => sig_file = tmp /\ result.res = "err"
        /\ pc = "completed"
           => sig_file = final /\ result = [op |-> "on_complete", res |-> "ok"]
        /\ result = [op |-> "on_complete", res |-> "ok"] => sig_file = final
        /\ result = [op |-> "on_complete", res |-> "err"] => sig_file = tmp
        /\ pc \in {"new", "started"} => end_height = 0
        /\ start_height = heights.start /\ end_height = heights.end

\* a run from one height to another was published, with lines in the file
C9_Witness ==
    /\ pc = "completed"
    /\ heights.start # heights.end
    /\ sig_file = <<"signatures-", 1, "-", 0, ".csv">>
    /\ files[sig_file] # <<>>

(***************************************************************************)
(* C10.  A write of a line that fails makes on_block return an error at    *)
(* once: nothing is queried or written after it, and the counters of the   *)
(* rest of the call are not added; and on_block returns an error only      *)
(* after a write that failed, never because of what the oracle returned.   *)
(***************************************************************************)
RECURSIVE SumTxCount(_)
SumTxCount(blocks) ==
    IF blocks = <<>> THEN 0 ELSE blocks[1].tx_count.value + SumTxCount(Tail(blocks))

C10_WriteErrorFailsBlockCall ==
    /\ \A k \in DOMAIN log :
          (log[k].ev = "write" /\ ~log[k].ok)
          => /\ k = Len(log)
             /\ log[k].at.blk = Len(delivered)
             /\ result = [op |-> "on_block", res |-> "err"]
             /\ pc \in {"failed", "dropped"}
             /\ tx_count = SumTxCount(SubSeq(delivered, 1, Len(delivered) - 1))
    /\ (result.op = "on_block" /\ result.res = "err")
       => /\ log # <<>>
          /\ log[Len(log)].ev = "write"
          /\ ~log[Len(log)].ok

\* a write failed with a decodable input of the same transaction still to
\* come; an earlier input of the run had no prior output in the store
C10_Witness ==
    /\ result = [op |-> "on_block", res |-> "err"]
    /\ log[Len(log)].at.inp = 1
    /\ Len(TxAt(log[Len(log)].at).value.inputs) = 2
    /\ Decodes(TxAt(log[Len(log)].at).value.inputs[2])
    /\ \E k \in DOMAIN log :
          log[k].ev = "query" /\ ~PriorOutputKnown(InputAt(log[k].at).input.outpoint)

(***************************************************************************)
(* C11.  After on_block calls that all succeeded, blocks_count is the      *)
(* number of blocks delivered, tx_count the number of their transactions,  *)
(* in_count and out_count the numbers of inputs and outputs of those       *)
(* transactions, whatever was written or skipped; a single block of one    *)
(* coinbase transaction gives 1, 1, 1, 1.                                  *)
(***************************************************************************)
RECURSIVE SumInputs(_)
SumInputs(txs) ==
    IF txs = <<>> THEN 0 ELSE Len(txs[1].value.inputs) + SumInputs(Tail(txs))

RECURSIVE SumOutputs(_)
SumOutputs(txs) ==
    IF txs = <<>> THEN 0 ELSE Len(txs[1].value.outputs) + SumOutputs(Tail(txs))

\* the transactions of a sequence of blocks, in order
AllTxs(blocks) == ConcatAll([b \in DOMAIN blocks |-> blocks[b].txs])

C11_CountersCountWhatWasDelivered ==
    ~(result.op = "on_block" /\ result.res # "ok")
    => /\ blocks_count = Len(delivered)
       /\ tx_count = Len(AllTxs(delivered))
       /\ in_count = SumInputs(AllTxs(delivered))
       /\ out_count = SumOutputs(AllTxs(delivered))
       /\ (delivered = <<MkBlock(<<PlainCoinbase>>)>>
           => <<blocks_count, tx_count, in_count, out_count>> = <<1, 1, 1, 1>>)

\* two blocks were counted: the lone coinbase, then a block where one input
\* of a two-input transaction was written and the other skipped
C11_Witness ==
    /\ pc = "started"
    /\ Len(delivered) = 2
    /\ delivered[1] = MkBlock(<<PlainCoinbase>>)
    /\ Len(Accepted) = 1
    /\ <<blocks_count, tx_count, in_count, out_count>> = <<2, 3, 4, 4>>

(***************************************************************************)
(* C14.  During on_block the oracle is queried once for each input that    *)
(* matches the signature pattern and DER-decodes, with the prior txid of   *)
(* that input, right before the line of the input is written; it is not    *)
(* queried for a skipped input, nor for another input while the message    *)
(* of an input is built.  Read in the state in which on_block returns.     *)
(***************************************************************************)
C14_OneQueryPerDecodedInput ==
    (result.op = "on_block" /\ pc # "dropped") =>
    /\ \A k \in DOMAIN log :
          log[k].ev = "query"
          => /\ Decodes(InputAt(log[k].at))
             /\ log[k].txid = InputAt(log[k].at).input.outpoint.txid
             /\ \A l \in DOMAIN log :
                   (log[l].ev = "query" /\ log[l].at = log[k].at) => l = k
    /\ \A k \in DOMAIN log :
          log[k].ev = "write"
          => /\ k > 1
             /\ log[k - 1].ev = "query"
             /\ log[k - 1].at = log[k].at
    /\ \A b \in DOMAIN delivered :
          (b < Len(delivered) \/ result.res = "ok")
          => \A t \in DOMAIN delivered[b].txs :
                \A i \in DOMAIN delivered[b].txs[t].value.inputs :
                    Decodes(delivered[b].txs[t].value.inputs[i])
                    => \E k \in DOMAIN log :
                          /\ log[k].ev = "query"
                          /\ log[k].at = [blk |-> b, tx |-> t, inp |-> i]

\* a transaction with two decoded inputs spending different transactions
\* was processed, and one with a skipped input next to a decoded one
C14_Witness ==
    /\ result = [op |-> "on_block", res |-> "ok"]
    /\ \E k \in DOMAIN log, l \in DOMAIN log :
          /\ log[k].ev = "query" /\ log[l].ev = "query"
          /\ log[k].at.blk = log[l].at.blk /\ log[k].at.tx = log[l].at.tx
          /\ log[k].at.inp # log[l].at.inp
          /\ log[k].txid # log[l].txid
    /\ \E k \in DOMAIN log :
          /\ log[k].ev = "query"
          /\ \E j \in DOMAIN TxAt(log[k].at).value.inputs :
                ~Decodes(TxAt(log[k].at).value.inputs[j])

(***************************************************************************)
(* C12.  The serializers give the canonical concatenation, nothing added   *)
(* or reordered: an outpoint is its 32 txid bytes as stored, then the      *)
(* index in 4 bytes little-endian; an input is the outpoint, the stored    *)
(* script length varint, the script, the sequence in 4 bytes LE; an output *)
(* is the value in 8 bytes LE, the stored script length varint, the        *)
(* script; a transaction is the version in 4 bytes LE, varint(in_count),   *)
(* the inputs in order, varint(out_count), the outputs in order, the       *)
(* locktime in 4 bytes LE; the two counts, like the script lengths, in the *)
(* bytes in which they were read.                                          *)
(***************************************************************************)
\* the four bytes of a u32 and the eight bytes of a u64 below 2^31, least
\* significant first
Bytes4(x) == <<x.lo % 256, x.lo \div 256, x.hi % 256, x.hi \div 256>>
Bytes8(n) == <<n % 256, (n \div 256) % 256, (n \div 65536) % 256, n \div 16777216, 0, 0, 0, 0>>

CanonicalOutpoint(o) == [k \in 1..36 |-> IF k <= 32 THEN o.txid[k] ELSE Bytes4(o.index)[k - 32]]

CanonicalInput(i) ==
    CanonicalOutpoint(i.outpoint) \o i.script_len.buf \o i.script_sig \o Bytes4(i.seq_no)

CanonicalOutput(o) == Bytes8(o.value) \o o.script_len.buf \o o.script_pubkey

RECURSIVE CanonicalInputs(_, _)
CanonicalInputs(tx, k) ==
    IF k > Len(tx.inputs) THEN <<>>
    ELSE CanonicalInput(tx.inputs[k].input) \o CanonicalInputs(tx, k + 1)

RECURSIVE CanonicalOutputs(_, _)
CanonicalOutputs(tx, k) ==
    IF k > Len(tx.outputs) THEN <<>>
    ELSE CanonicalOutput(tx.outputs[k].out) \o CanonicalOutputs(tx, k + 1)

C12_ToRawIsCanonical ==
    pure.op = "to_bytes"
    => /\ \A k \in DOMAIN pure.tx.inputs :
             /\ pure.outpoints[k] = CanonicalOutpoint(pure.tx.inputs[k].input.outpoint)
             /\ pure.inputs[k] = CanonicalInput(pure.tx.inputs[k].input)
             /\ Len(pure.inputs[k])
                  = 40 + Len(pure.tx.inputs[k].input.script_len.buf)
                       + Len(pure.tx.inputs[k].input.script_sig)
       /\ \A k \in DOMAIN pure.tx.outputs :
             pure.outputs[k] = CanonicalOutput(pure.tx.outputs[k].out)
       /\ pure.bytes =
             Bytes4(pure.tx.version) \o pure.tx.in_count.buf
                \o CanonicalInputs(pure.tx, 1)
                \o pure.tx.out_count.buf \o CanonicalOutputs(pure.tx, 1)
                \o Bytes4(pure.tx.locktime)

\* a transaction of two different inputs, one with a script of 253 bytes and
\* one with a three-byte length of a two-byte script, and of two outputs,
\* whose number of inputs was read from three bytes
C12_Witness ==
    /\ pure.op = "to_bytes"
    /\ pure.tx.in_count.buf = <<253, 2, 0>>
    /\ Len(pure.tx.inputs) = 2
    /\ Len(pure.tx.inputs[1].input.script_sig) = 253
    /\ pure.tx.inputs[2].input.script_len.buf = <<253, 2, 0>>
    /\ Len(pure.tx.outputs) = 2
    /\ pure.tx.outputs[1] # pure.tx.outputs[2]

(***************************************************************************)
(* C13.  is_coinbase is true exactly of a transaction with one input whose *)
(* outpoint is the all-zero 32-byte txid with index 0xFFFFFFFF; it is      *)
(* false, and does not fail, of every other transaction, one without       *)
(* inputs and one with several inputs the first of which is that outpoint  *)
(* included.  The transactions are those read from a block: their in_count *)
(* is the number of their inputs.                                          *)
(***************************************************************************)
C13_IsCoinbaseIffSingleSentinelInput ==
    pure.op = "is_coinbase"
    => /\ pure.result.res = "ok"
       /\ pure.result.value \in BOOLEAN
       /\ pure.result.value
            <=> /\ Len(pure.tx.inputs) = 1
                /\ Len(pure.tx.inputs[1].input.outpoint.txid) = 32
                /\ \A k \in 1..32 : pure.tx.inputs[1].input.outpoint.txid[k] = 0
                /\ pure.tx.inputs[1].input.outpoint.index.hi = 65535
                /\ pure.tx.inputs[1].input.outpoint.index.lo = 65535

\* is_coinbase answered true
C13_Witness ==
    /\ pure.op = "is_coinbase"
    /\ pure.result = [res |-> "ok", value |-> TRUE]
    /\ Len(pure.tx.inputs) = 1

====
